---- MODULE Spec2Model ----
(***************************************************************************)
(* Model of the task service of tds_pro_1: the sandboxed path resolver     *)
(* (app/utils/security.py), the storage accessor (app/utils/file_ops.py),  *)
(* the /read and /run endpoints with the task dispatcher (app/main.py),    *)
(* the text-generation client (app/utils/llm.py) and the executors         *)
(* (app/main.py, app/handlers/operations.py, app/handlers/business.py).    *)
(*                                                                         *)
(* A path is a record [abs, segs]: abs tells whether the string starts     *)
(* with "/", segs is the sequence of its "/"-separated components.  A      *)
(* resolved location is the sequence of components below the root.         *)
(***************************************************************************)
EXTENDS Integers, Sequences, FiniteSets, TLC

VARIABLES
    fs,       \* regular files on disk: resolved location -> content
    links,    \* symbolic links on disk: resolved location -> target location
    cwd,      \* working directory of the server process (a resolved location)
    opened,   \* every open() the program has performed: [req, by, loc, mode]
    acc,      \* the storage-level call in progress (resolver, accessor, GET /read)
    entry,    \* per request: "POST /run", or "direct" for a handler method called as such
    pc,       \* per request: the pipeline stage the request is in
    desc,     \* per request: the task description received
    task_type,\* per request: the stripped reply of the classifier
    resp,     \* per request: the HTTP response, status 0 while none is sent
    llm_calls,\* per request: number of calls made to the text-generation service
    llm_log,  \* per request: outcome kinds of the classifier's attempts
    executor, \* per request: the executor invoked, "none" before
    proc,     \* per request: exit status of the program the executor ran, -1 if none
    llm_next, \* how the text-generation service answers the next attempt
    inner,    \* per request: status of the HTTPException the storage accessor
              \* raised inside the executor, 0 if it raised none
    params,   \* per request: the reply the executor took its parameters from
    script_by,\* the request that wrote /tmp/datagen.py last, "none" if none did
    ran       \* per request: the request that wrote the script it ran, "none" if it ran none

vars == <<fs, links, cwd, opened, acc, entry, pc, desc, task_type, resp, llm_calls,
          llm_log, executor, proc, llm_next, inner, params, script_by, ran>>

reqVars == <<entry, pc, desc, task_type, resp, llm_calls, llm_log, executor, proc,
             llm_next, inner, params, script_by, ran>>

----------------------------------------------------------------------------
(* Bounds of the model *)

MaxPathLen == 3      \* components of an input path
MaxDescLen == 2      \* tokens of a task description

(* Program constants *)

MAX_FILE_SIZE == 10 * 1024 * 1024
DATA_DIR == <<"data">>
TEMP_DIR == <<"tmp">>
ALLOWED_DIRS == {DATA_DIR}

----------------------------------------------------------------------------
(* Paths *)

BoundedSeq(S, n) == UNION {[1..k -> S] : k \in 0..n}

\* Path components the inputs are built from.  "a..b" is an ordinary file
\* name whose text contains two dots; "database" is a sibling of the data
\* directory whose name starts with the same characters.
Segs == {"data", "database", "etc", "f", "ln", "a..b", ".", ".."}

InputPaths == [abs : BOOLEAN, segs : BoundedSeq(Segs, MaxPathLen)]

AbsPath(loc) == [abs |-> TRUE, segs |-> loc]

Parent(loc) == IF loc = <<>> THEN <<>> ELSE SubSeq(loc, 1, Len(loc) - 1)

IsPrefix(a, b) == Len(a) <= Len(b) /\ SubSeq(b, 1, Len(a)) = a

\* d in path.parents : the parents of a path exclude the path itself
InParents(d, loc) == Len(d) < Len(loc) /\ IsPrefix(d, loc)

\* pathlib's "/" operator: an absolute right operand replaces the left one
PathJoin(base, p) ==
    IF p.abs THEN p ELSE [abs |-> TRUE, segs |-> base \o p.segs]

\* Walk the components left to right the way realpath does: "." is
\* skipped, ".." drops the last component of the location reached so far,
\* and a location that is a symbolic link is replaced by its target.
RECURSIVE Walk(_, _, _)
Walk(loc, rest, lnk) ==
    IF rest = <<>> THEN loc
    ELSE LET s == Head(rest)
             nxt == Append(loc, s)
         IN  IF s = "." THEN Walk(loc, Tail(rest), lnk)
             ELSE IF s = ".." THEN Walk(Parent(loc), Tail(rest), lnk)
             ELSE IF nxt \in DOMAIN lnk THEN Walk(lnk[nxt], Tail(rest), lnk)
             ELSE Walk(nxt, Tail(rest), lnk)

\* Path(p).resolve(): absolute (relative inputs start at the working
\* directory), symbolic links followed, "." and ".." removed.
Resolve(p, wd, lnk) == Walk(IF p.abs THEN <<>> ELSE wd, p.segs, lnk)

\* '..' in str(path): the text of a component contains two adjacent dots
SegHasDotDot(s) == s \in {"..", "a..b"}
StrHasDotDot(loc) == \E i \in 1..Len(loc) : SegHasDotDot(loc[i])

\* str(path).startswith("/data"): a prefix test on the text, so "/database"
\* passes it as well as "/data" and "/data/f"
SegStartsWithData(s) == s \in {"data", "database"}
StartsWithDataDir(p) ==
    p.abs /\ Len(p.segs) >= 1 /\ SegStartsWithData(p.segs[1])

\* path.startswith("/data/") on the raw request string
StartsWithDataSlash(p) ==
    p.abs /\ Len(p.segs) >= 2 /\ p.segs[1] = "data"

----------------------------------------------------------------------------
(* Results of the calls: status 200 stands for a normal return, any other  *)
(* status for the HTTPException raised.                                    *)

NoLoc == <<"?">>
NoContent == [text |-> <<>>, size |-> 0]

Ok(loc, content) == [status |-> 200, loc |-> loc, content |-> content]
Raise(status) == [status |-> status, loc |-> NoLoc, content |-> NoContent]

\* validate_path with the containment test done on the text of the path
\* (str(path).startswith(str(d))) instead of on its parents
validate_path_by_prefix(p, wd, lnk) ==
    LET path == Resolve(p, wd, lnk)
    IN  IF ~ StartsWithDataDir(AbsPath(path)) THEN Raise(400)
        ELSE IF StrHasDotDot(path) THEN Raise(400)
        ELSE Ok(path, NoContent)

\* validate_path: the 400 raised inside the try block is caught by the
\* function's own except clause and raised again as a 400.
validate_path(p, wd, lnk) ==
    LET path == Resolve(p, wd, lnk)
    IN  IF ~ \E d \in ALLOWED_DIRS : InParents(d, path) THEN Raise(400)
        ELSE IF StrHasDotDot(path) THEN Raise(400)
        ELSE Ok(path, NoContent)

ensure_data_dir(p, wd, lnk) ==
    validate_path(IF StartsWithDataDir(p) THEN p ELSE PathJoin(DATA_DIR, p), wd, lnk)

----------------------------------------------------------------------------
(* The disk *)

\* A content is its lines and its size in bytes
Small == [text |-> <<"x">>, size |-> 1]
Secret == [text |-> <<"root:x:0:0">>, size |-> 10]
AtCeiling == [text |-> <<"many">>, size |-> MAX_FILE_SIZE]
OverCeiling == [text |-> <<"huge">>, size |-> MAX_FILE_SIZE + 1]

\* Directories that exist whatever the files are
BaseDirs == {<<>>, <<"data">>, <<"etc">>, <<"tmp">>, <<"database">>, <<"app">>}

IsDir(loc, f) == loc \in BaseDirs \/ \E q \in DOMAIN f : InParents(loc, q)
IsFile(loc, f) == loc \in DOMAIN f
UnderAFile(loc, f) == \E q \in DOMAIN f : InParents(q, loc)

PutFile(f, loc, content) ==
    [q \in DOMAIN f \cup {loc} |-> IF q = loc THEN content ELSE f[q]]

\* The kernel's lookup of a raw path string, as open() and Path.exists()
\* do it: every component is looked up in an existing directory; the
\* lookup ends in ENOTDIR under a regular file and in ENOENT under nothing.
NoEnt == <<"?ENOENT">>
NotDir == <<"?ENOTDIR">>

RECURSIVE OSWalk(_, _, _, _)
OSWalk(loc, rest, lnk, f) ==
    IF rest = <<>> THEN loc
    ELSE IF loc \in DOMAIN f THEN NotDir
    ELSE IF ~ IsDir(loc, f) THEN NoEnt
    ELSE LET s == Head(rest)
             nxt == Append(loc, s)
         IN  IF s = "." THEN OSWalk(loc, Tail(rest), lnk, f)
             ELSE IF s = ".." THEN OSWalk(Parent(loc), Tail(rest), lnk, f)
             ELSE IF nxt \in DOMAIN lnk THEN OSWalk(lnk[nxt], Tail(rest), lnk, f)
             ELSE OSWalk(nxt, Tail(rest), lnk, f)

OSLookup(p, wd, lnk, f) == OSWalk(IF p.abs THEN <<>> ELSE wd, p.segs, lnk, f)

\* Path.exists()
PathExists(p, wd, lnk, f) ==
    LET loc == OSLookup(p, wd, lnk, f)
    IN  loc \notin {NoEnt, NotDir} /\ (IsFile(loc, f) \/ IsDir(loc, f))

\* open(path, 'r') followed by read().  status 404 stands for
\* FileNotFoundError, 500 for any other OSError (the path is a directory,
\* a component of it is a regular file); 200 carries the file opened.
OpenRead(p, wd, lnk, f) ==
    LET loc == OSLookup(p, wd, lnk, f)
    IN  IF loc = NoEnt THEN Raise(404)
        ELSE IF loc = NotDir THEN Raise(500)
        ELSE IF IsFile(loc, f) THEN Ok(loc, f[loc])
        ELSE IF IsDir(loc, f) THEN Raise(500)
        ELSE Raise(404)

\* path.parent.mkdir(parents=True, exist_ok=True) followed by
\* open(path, 'w'): possible unless a component of the path is a regular
\* file or the path is a directory.
CanCreate(loc, f) == ~ UnderAFile(loc, f) /\ ~ IsDir(loc, f)

\* req is the request on whose behalf the file was opened, "none" for a
\* storage-level call
Opening(req, by, loc, mode) == [req |-> req, by |-> by, loc |-> loc, mode |-> mode]

----------------------------------------------------------------------------
(* JSON documents (json.dumps and json.loads as file_ops.py uses them).    *)
(* A value is a dict, a list or a tuple of small integers, or one integer. *)
(* A dict key is a text or an integer: Python accepts both, JSON has only  *)
(* texts.  A document's text is the sequence of its lexemes; the blanks    *)
(* and line breaks of indent=2 are left out, json.loads skips them.        *)

Digits == <<"0", "1", "2", "3", "4", "5", "6", "7", "8", "9">>
\* str() of a natural number
RECURSIVE Str(_)
Str(n) == IF n < 10 THEN Digits[n + 1] ELSE Str(n \div 10) \o Digits[(n % 10) + 1]

KeyTexts == {"a", "1"}
StrKey(t) == [int |-> FALSE, text |-> t]
IntKey(t) == [int |-> TRUE, text |-> t]
Keys == {StrKey("a"), StrKey("1"), IntKey("1")}

JDict(keys, vals) == [kind |-> "dict", keys |-> keys, vals |-> vals]
JList(vals) == [kind |-> "list", keys |-> <<>>, vals |-> vals]
JTuple(vals) == [kind |-> "tuple", keys |-> <<>>, vals |-> vals]
JInt(n) == [kind |-> "int", keys |-> <<>>, vals |-> <<n>>]
NoData == [kind |-> "none", keys |-> <<>>, vals |-> <<>>]

\* the values handed to write_json
JValues ==
    {JDict(<<>>, <<>>), JList(<<>>), JList(<<1, 2>>), JTuple(<<1, 2>>)}
    \cup {JDict(<<k>>, <<n>>) : k \in Keys, n \in {1}}
    \cup {JDict(<<k1, k2>>, <<1, 2>>) : k1 \in {StrKey("a"), IntKey("1")},
                                        k2 \in {StrKey("1")}}

\* a value that JSON represents as it is: no tuple, every key a text
Representable(v) ==
    /\ v.kind \in {"dict", "list", "int"}
    /\ \A i \in 1 .. Len(v.keys) : ~ v.keys[i].int

Quote(t) == "\"" \o t \o "\""
IsQuoted(tok) == \E t \in KeyTexts : Quote(t) = tok
Unquote(tok) == CHOOSE t \in KeyTexts : Quote(t) = tok
IsNumber(tok) == \E n \in 0 .. 9 : Digits[n + 1] = tok
Number(tok) == CHOOSE n \in 0 .. 9 : Digits[n + 1] = tok

\* the lexemes of the members of a dict, from the i-th on
RECURSIVE DumpMembers(_, _)
DumpMembers(v, i) ==
    IF i > Len(v.keys) THEN <<>>
    ELSE <<Quote(v.keys[i].text), ":", Str(v.vals[i])>>
         \o (IF i < Len(v.keys) THEN <<",">> ELSE <<>>)
         \o DumpMembers(v, i + 1)

\* the lexemes of the elements of a list or tuple, from the i-th on
RECURSIVE DumpElements(_, _)
DumpElements(v, i) ==
    IF i > Len(v.vals) THEN <<>>
    ELSE <<Str(v.vals[i])>>
         \o (IF i < Len(v.vals) THEN <<",">> ELSE <<>>)
         \o DumpElements(v, i + 1)

\* json.dumps(data, indent=2): an integer key is written as its text, a
\* tuple as a list
dumps(v) ==
    IF v.kind = "dict" THEN <<"{">> \o DumpMembers(v, 1) \o <<"}">>
    ELSE IF v.kind = "int" THEN <<Str(v.vals[1])>>
    ELSE <<"[">> \o DumpElements(v, 1) \o <<"]">>

JsonContent(v) == [text |-> dumps(v), size |-> Len(dumps(v))]

Parsed(v) == [ok |-> TRUE, value |-> v]
JSONDecodeError == [ok |-> FALSE, value |-> NoData]

\* a dict with key k set to n: a key already present keeps its place
SetKey(v, k, n) ==
    IF \E i \in 1 .. Len(v.keys) : v.keys[i] = k
    THEN JDict(v.keys, [i \in 1 .. Len(v.vals) |->
                            IF v.keys[i] = k THEN n ELSE v.vals[i]])
    ELSE JDict(Append(v.keys, k), Append(v.vals, n))

\* the members between the braces, added to the dict v
RECURSIVE ParseMembers(_, _)
ParseMembers(toks, v) ==
    IF Len(toks) < 3 \/ ~ IsQuoted(toks[1]) \/ toks[2] # ":"
       \/ ~ IsNumber(toks[3])
    THEN JSONDecodeError
    ELSE LET w == SetKey(v, StrKey(Unquote(toks[1])), Number(toks[3]))
         IN  IF Len(toks) = 3 THEN Parsed(w)
             ELSE IF toks[4] # "," THEN JSONDecodeError
             ELSE ParseMembers(SubSeq(toks, 5, Len(toks)), w)

\* the elements between the brackets, added to the list v
RECURSIVE ParseElements(_, _)
ParseElements(toks, v) ==
    IF Len(toks) < 1 \/ ~ IsNumber(toks[1]) THEN JSONDecodeError
    ELSE LET w == JList(Append(v.vals, Number(toks[1])))
         IN  IF Len(toks) = 1 THEN Parsed(w)
             ELSE IF toks[2] # "," THEN JSONDecodeError
             ELSE ParseElements(SubSeq(toks, 3, Len(toks)), w)

\* json.loads(content)
loads(toks) ==
    IF toks = <<>> THEN JSONDecodeError
    ELSE IF Len(toks) = 1
    THEN IF IsNumber(toks[1]) THEN Parsed(JInt(Number(toks[1])))
         ELSE JSONDecodeError
    ELSE LET body == SubSeq(toks, 2, Len(toks) - 1)
         IN  IF toks[1] = "{" /\ toks[Len(toks)] = "}"
             THEN IF body = <<>> THEN Parsed(JDict(<<>>, <<>>))
                  ELSE ParseMembers(body, JDict(<<>>, <<>>))
             ELSE IF toks[1] = "[" /\ toks[Len(toks)] = "]"
             THEN IF body = <<>> THEN Parsed(JList(<<>>))
                  ELSE ParseElements(body, JList(<<>>))
             ELSE JSONDecodeError

----------------------------------------------------------------------------
(* Storage accessor (app/utils/file_ops.py) and GET /read (app/main.py)    *)

\* file_ops.read_file
FileOpsRead(p, wd, lnk, f) ==
    LET v == validate_path(p, wd, lnk)
    IN  IF v.status # 200 THEN v
        ELSE OpenRead(AbsPath(v.loc), wd, lnk, f)

\* file_ops.write_file: the result; the file is written when it is 200
FileOpsWrite(p, wd, lnk, f) ==
    LET v == ensure_data_dir(p, wd, lnk)
    IN  IF v.status # 200 THEN v
        ELSE IF CanCreate(v.loc, f) THEN v
        ELSE Raise(500)

\* file_ops.read_json: [status, value]; read_file's exception passes
\* unchanged, a text that is no JSON document ends in a 500
FileOpsReadJson(p, wd, lnk, f) ==
    LET r == FileOpsRead(p, wd, lnk, f)
    IN  IF r.status # 200 THEN [status |-> r.status, value |-> NoData]
        ELSE LET d == loads(r.content.text)
             IN  IF d.ok THEN [status |-> 200, value |-> d.value]
                 ELSE [status |-> 500, value |-> NoData]

\* file_ops.write_json: the result; every exception of write_file is
\* caught and raised again as a 500
FileOpsWriteJson(p, wd, lnk, f) ==
    LET w == FileOpsWrite(p, wd, lnk, f)
    IN  IF w.status = 200 THEN w ELSE Raise(500)

\* main.read_file, the handler of GET /read
ReadEndpoint(p, wd, lnk, f) ==
    IF ~ StartsWithDataSlash(p) THEN Raise(400)
    ELSE IF ~ PathExists(p, wd, lnk, f) THEN Raise(404)
    ELSE OpenRead(p, wd, lnk, f)

StorageOps == {"validate_path", "ensure_data_dir", "file_ops.read_file",
               "file_ops.write_file", "file_ops.read_json",
               "file_ops.write_json", "GET /read"}

\* what read_json gave: nothing yet
NoBack == [status |-> 0, value |-> NoData]

\* a storage call: data is the value handed to write_json, back is what
\* read_json of the same path returned
IdleCall == [op |-> "none", path |-> AbsPath(<<>>), content |-> NoContent,
             data |-> NoData, done |-> FALSE, result |-> Raise(0),
             back |-> NoBack]

Return(result) == acc' = [acc EXCEPT !.done = TRUE, !.result = result]

ValidatePathCall ==
    /\ acc.op = "validate_path" /\ ~ acc.done
    /\ Return(validate_path(acc.path, cwd, links))
    /\ UNCHANGED <<fs, links, cwd, opened, reqVars>>

EnsureDataDirCall ==
    /\ acc.op = "ensure_data_dir" /\ ~ acc.done
    /\ Return(ensure_data_dir(acc.path, cwd, links))
    /\ UNCHANGED <<fs, links, cwd, opened, reqVars>>

FileOpsReadFile ==
    /\ acc.op = "file_ops.read_file" /\ ~ acc.done
    /\ LET r == FileOpsRead(acc.path, cwd, links, fs)
       IN  /\ Return(r)
           /\ opened' = IF r.status = 200
                        THEN opened \cup {Opening("none", "file_ops.read_file", r.loc, "r")}
                        ELSE opened
    /\ UNCHANGED <<fs, links, cwd, reqVars>>

FileOpsWriteFile ==
    /\ acc.op = "file_ops.write_file" /\ ~ acc.done
    /\ LET r == FileOpsWrite(acc.path, cwd, links, fs)
       IN  /\ Return(r)
           /\ fs' = IF r.status = 200 THEN PutFile(fs, r.loc, acc.content) ELSE fs
           /\ opened' = IF r.status = 200
                        THEN opened \cup {Opening("none", "file_ops.write_file", r.loc, "w")}
                        ELSE opened
    /\ UNCHANGED <<links, cwd, reqVars>>

FileOpsWriteJsonCall ==
    /\ acc.op = "file_ops.write_json" /\ ~ acc.done
    /\ LET r == FileOpsWriteJson(acc.path, cwd, links, fs)
       IN  /\ Return(r)
           /\ fs' = IF r.status = 200 THEN PutFile(fs, r.loc, JsonContent(acc.data))
                    ELSE fs
           /\ opened' = IF r.status = 200
                        THEN opened \cup {Opening("none", "file_ops.write_file", r.loc, "w")}
                        ELSE opened
    /\ UNCHANGED <<links, cwd, reqVars>>

\* read_json, called on its own or on the path write_json has just written
FileOpsReadJsonCall ==
    /\ \/ acc.op = "file_ops.read_json" /\ ~ acc.done
       \/ /\ acc.op = "file_ops.write_json" /\ acc.done
          /\ acc.result.status = 200 /\ acc.back = NoBack
    /\ LET r == FileOpsRead(acc.path, cwd, links, fs)
       IN  /\ acc' = [acc EXCEPT !.done = TRUE,
                                 !.back = FileOpsReadJson(acc.path, cwd, links, fs)]
           /\ opened' = IF r.status = 200
                        THEN opened \cup {Opening("none", "file_ops.read_file", r.loc, "r")}
                        ELSE opened
    /\ UNCHANGED <<fs, links, cwd, reqVars>>

GetRead ==
    /\ acc.op = "GET /read" /\ ~ acc.done
    /\ LET r == ReadEndpoint(acc.path, cwd, links, fs)
       IN  /\ Return(r)
           /\ opened' = IF r.status = 200
                        THEN opened \cup {Opening("none", "GET /read", r.loc, "r")}
                        ELSE opened
    /\ UNCHANGED <<fs, links, cwd, reqVars>>

----------------------------------------------------------------------------
(* Initial disk and the storage-level specification: one call of the      *)
(* resolver, of the accessor or of GET /read on an input drawn from        *)
(* InputPaths.                                                             *)

Requests == {"r1", "r2"}

NoLinks == [q \in {} |-> <<>>]
\* /data/ln is a symbolic link to /etc
EscapeLink == [q \in {<<"data", "ln">>} |-> <<"etc">>]

Dates == [text |-> <<"2024-01-03", "2024-01-04", "2024-01-10">>, size |-> 32]

Disk(c) ==
    [q \in {<<"data", "f">>, <<"etc", "f">>, <<"data", "dates.txt">>} |->
        IF q = <<"data", "f">> THEN c
        ELSE IF q = <<"etc", "f">> THEN Secret ELSE Dates]

NoResp == [status |-> 0, detail |-> ""]

\* no reply taken as parameters yet; doc is the parsed document of a reply
NoParams == [got |-> FALSE, json |-> FALSE,
             doc |-> [keys |-> {}, input |-> AbsPath(<<>>),
                      output |-> AbsPath(<<>>), type |-> ""]]

NoRequest ==
    /\ entry = [r \in Requests |-> "none"]
    /\ pc = [r \in Requests |-> "idle"]
    /\ desc = [r \in Requests |-> [textual |-> TRUE, toks |-> <<>>]]
    /\ task_type = [r \in Requests |-> <<>>]
    /\ resp = [r \in Requests |-> NoResp]
    /\ llm_calls = [r \in Requests |-> 0]
    /\ llm_log = [r \in Requests |-> <<>>]
    /\ executor = [r \in Requests |-> "none"]
    /\ proc = [r \in Requests |-> -1]
    /\ llm_next = "ok"
    /\ inner = [r \in Requests |-> 0]
    /\ params = [r \in Requests |-> NoParams]
    /\ script_by = "none"
    /\ ran = [r \in Requests |-> "none"]

InitStorage ==
    /\ fs \in {Disk(Small), Disk(OverCeiling)}
    /\ links \in {NoLinks, EscapeLink}
    /\ cwd \in {<<"app">>, <<"data">>}
    /\ opened = {}
    /\ acc \in [op : StorageOps, path : InputPaths,
                content : {Small, AtCeiling, OverCeiling},
                data : JValues \cup {NoData},
                done : {FALSE}, result : {Raise(0)}, back : {NoBack}]
    /\ acc.op # "file_ops.write_file" => acc.content = Small
    /\ acc.op = "file_ops.write_json" <=> acc.data # NoData
    /\ NoRequest

NextStorage ==
    \/ ValidatePathCall
    \/ EnsureDataDirCall
    \/ FileOpsReadFile
    \/ FileOpsWriteFile
    \/ FileOpsWriteJsonCall
    \/ FileOpsReadJsonCall
    \/ GetRead

SpecStorage == InitStorage /\ [][NextStorage]_vars

----------------------------------------------------------------------------
(* Task descriptions.  A description is a text cut into tokens at blanks,  *)
(* or a value that is no text at all.                                      *)

Tokens == {"/data/dates.txt", "Count", "../x"}

TokStartsWithData(t) == t = "/data/dates.txt"
TokHasDotDot(t) == t = "../x"

NonText == [textual |-> FALSE, toks |-> <<>>]
Descriptions ==
    [textual : {TRUE}, toks : BoundedSeq(Tokens, MaxDescLen)] \cup {NonText}

\* '..' in task_description
DescHasDotDot(d) == \E i \in 1..Len(d.toks) : TokHasDotDot(d.toks[i])
\* task_description.startswith('/data')
DescStartsWithData(d) == Len(d.toks) >= 1 /\ TokStartsWithData(d.toks[1])

\* BaseHandler.validate_task: 400 for an empty description and for one
\* that is no str, a normal return (200) otherwise
validate_task(d) == IF d.toks = <<>> \/ ~ d.textual THEN 400 ELSE 200

\* The keys of config.TASK_CATEGORIES
TASK_CATEGORIES ==
    {"A1", "A2", "A3", "A4", "A5", "A6", "A7", "A8", "A9", "A10",
     "B3", "B4", "B5", "B6", "B7", "B8", "B9", "B10"}

----------------------------------------------------------------------------
(* The text-generation service.  An attempt ends in a reply ("ok"), in a   *)
(* transport error ("timeout", "reset") or in a 5xx answer.  A reply is    *)
(* its text, cut into words and runs of white space, and, when the text    *)
(* is a JSON document, the document: the keys present and their values.    *)

LLMOutcomes == {"ok", "timeout", "reset", "http5xx"}

NoDoc == [keys |-> {}, input |-> AbsPath(<<>>), output |-> AbsPath(<<>>), type |-> ""]

TextReply(chunks) == [chunks |-> chunks, json |-> FALSE, doc |-> NoDoc]
JsonReply(doc) == [chunks |-> <<"{...}">>, json |-> TRUE, doc |-> doc]

CategoryReplies ==
    {TextReply(<<"A1">>), TextReply(<<"A2">>), TextReply(<<" ", "A3", "\n">>),
     TextReply(<<"A4">>), TextReply(<<"A6">>), TextReply(<<"B3">>),
     TextReply(<<"Z9">>),
     TextReply(<<" ">>), TextReply(<<>>)}

FileReplies ==
    {JsonReply([keys |-> {"input", "output"},
                input |-> AbsPath(<<"data", "dates.txt">>),
                output |-> AbsPath(<<"data", "out.txt">>), type |-> ""]),
     JsonReply([keys |-> {"input", "output"},
                input |-> AbsPath(<<"etc", "f">>),
                output |-> AbsPath(<<"etc", "out.txt">>), type |-> ""]),
     JsonReply([keys |-> {"input", "output"},
                input |-> AbsPath(<<"tmp", "datagen.py">>),
                output |-> AbsPath(<<"data", "out.txt">>), type |-> ""]),
     JsonReply([keys |-> {"input"},
                input |-> AbsPath(<<"data", "dates.txt">>),
                output |-> AbsPath(<<>>), type |-> ""])}

TaskInfoReplies ==
    {JsonReply([NoDoc EXCEPT !.keys = {"type", "parameters"}, !.type = "sql"]),
     JsonReply([NoDoc EXCEPT !.keys = {"type", "parameters"}, !.type = "video"]),
     JsonReply([NoDoc EXCEPT !.keys = {"type"}, !.type = "sql"])}

Replies == CategoryReplies \cup FileReplies \cup TaskInfoReplies

IsSpace(c) == c \in {" ", "\n"}

\* str.strip(): leading and trailing white space removed
RECURSIVE LStrip(_)
LStrip(cs) == IF cs # <<>> /\ IsSpace(Head(cs)) THEN LStrip(Tail(cs)) ELSE cs
RECURSIVE RStrip(_)
RStrip(cs) ==
    IF cs # <<>> /\ IsSpace(cs[Len(cs)]) THEN RStrip(SubSeq(cs, 1, Len(cs) - 1)) ELSE cs
Strip(cs) == RStrip(LStrip(cs))

----------------------------------------------------------------------------
(* Dates: datetime.strptime(line, '%Y-%m-%d').weekday()                    *)

DateTable ==
    [l \in {"2024-01-03", "2024-01-04", "2024-01-10"} |->
        IF l = "2024-01-03" THEN [y |-> 2024, m |-> 1, d |-> 3]
        ELSE IF l = "2024-01-04" THEN [y |-> 2024, m |-> 1, d |-> 4]
        ELSE [y |-> 2024, m |-> 1, d |-> 10]]

IsDate(l) == l \in DOMAIN DateTable

MonthKey == <<0, 3, 2, 5, 0, 3, 5, 1, 4, 6, 2, 4>>

\* date.weekday(): Monday is 0, Wednesday is 2
Weekday(dt) ==
    LET y == IF dt.m < 3 THEN dt.y - 1 ELSE dt.y
        sunday0 == (y + (y \div 4) - (y \div 100) + (y \div 400)
                      + MonthKey[dt.m] + dt.d) % 7
    IN  (sunday0 + 6) % 7

RECURSIVE CountWednesdays(_)
CountWednesdays(ls) ==
    IF ls = <<>> THEN 0
    ELSE (IF Weekday(DateTable[Head(ls)]) = 2 THEN 1 ELSE 0) + CountWednesdays(Tail(ls))

----------------------------------------------------------------------------
(* POST /run: run_task and TaskHandler.handle_task (app/main.py).          *)
(*                                                                         *)
(* pc[r] is the stage the request r has reached: "received", "validating", *)
(* "classifying", "resolving", "analyzing" (handle_custom_task awaiting    *)
(* the service), "executing", and "blocked" inside a call that does not    *)
(* return.  The request is over once resp[r].status is not 0, and pc[r]    *)
(* then tells the stage at which it ended.  The handler's coroutine gives  *)
(* up control only where it awaits the service, so each action runs from   *)
(* one await to the next.  The AIPROXY_TOKEN is taken to be configured.    *)
(* The try statement of handle_task (line 66) has no except clause in the  *)
(* file: what is raised inside it goes to run_task, which passes an        *)
(* HTTPException on and answers 500 for anything else.                     *)

Resp(status, detail) == [status |-> status, detail |-> detail]

Pending(r) == resp[r].status = 0

\* The table of handle_task.  The methods for A4..A10 are left out of
\* TaskHandler in main.py ("Additional handlers for A4-A10 would go
\* here"); the methods of these names are those of OperationsHandler.
HandlerTable ==
    [c \in {"A1", "A2", "A3", "A4", "A5", "A6", "A7", "A8", "A9", "A10"} |->
        CASE c = "A1" -> "TaskHandler.handle_datagen"
          [] c = "A2" -> "TaskHandler.handle_format_markdown"
          [] c = "A3" -> "TaskHandler.handle_count_weekdays"
          [] c = "A4" -> "OperationsHandler.handle_sort_contacts"
          [] c = "A5" -> "OperationsHandler.handle_recent_logs"
          [] c = "A6" -> "OperationsHandler.handle_markdown_index"
          [] c = "A7" -> "OperationsHandler.handle_extract_email"
          [] c = "A8" -> "OperationsHandler.handle_extract_card"
          [] c = "A9" -> "OperationsHandler.handle_similar_comments"
          [] c = "A10" -> "OperationsHandler.handle_ticket_sales"]

\* The table of handle_custom_task; its methods are those of BusinessHandler
CustomTable ==
    [t \in {"api_fetch", "git", "sql", "scraping", "image", "audio", "markdown", "csv"} |->
        CASE t = "api_fetch" -> "BusinessHandler.handle_api_fetch"
          [] t = "git" -> "BusinessHandler.handle_git_operations"
          [] t = "sql" -> "BusinessHandler.handle_sql_query"
          [] t = "scraping" -> "BusinessHandler.handle_web_scraping"
          [] t = "image" -> "BusinessHandler.handle_image_processing"
          [] t = "audio" -> "BusinessHandler.handle_audio_transcription"
          [] t = "markdown" -> "BusinessHandler.handle_markdown_conversion"
          [] t = "csv" -> "BusinessHandler.handle_csv_filtering"]

\* handlers.get(task_type): the handler, or "none" for None
Lookup(table, key) ==
    IF Len(key) = 1 /\ key[1] \in DOMAIN table THEN table[key[1]] ELSE "none"

\* Handlers whose first statement awaits the service
AwaitsFirst == {"TaskHandler.handle_datagen", "TaskHandler.handle_count_weekdays",
                "OperationsHandler.handle_datagen",
                "OperationsHandler.handle_count_weekdays"}

OtherOperations == {HandlerTable[c] : c \in {"A4", "A5", "A7", "A8", "A9", "A10"}}
BusinessMethods == {CustomTable[t] : t \in DOMAIN CustomTable}

Finish(r, stage, status, detail) ==
    /\ pc' = [pc EXCEPT ![r] = stage]
    /\ resp' = [resp EXCEPT ![r] = Resp(status, detail)]

Goto(r, stage) ==
    /\ pc' = [pc EXCEPT ![r] = stage]
    /\ resp' = resp

\* One attempt of the service is consumed: the service answers it as
\* llm_next tells, and how it answers the attempt after is open again.
Consume == llm_next' \in LLMOutcomes

CallIssued(r) == llm_calls' = [llm_calls EXCEPT ![r] = @ + 1]

\* handle_task up to the call of classify_task: a description that is no
\* text makes the "in" test raise, which run_task turns into a 500.
RunTaskValidate(r) ==
    /\ entry[r] = "POST /run" /\ pc[r] = "received" /\ Pending(r)
    /\ IF ~ desc[r].textual
       THEN Finish(r, "validating", 500, "TypeError") /\ llm_calls' = llm_calls
       ELSE IF DescHasDotDot(desc[r]) \/ ~ DescStartsWithData(desc[r])
       THEN Finish(r, "validating", 400, "Invalid path access") /\ llm_calls' = llm_calls
       ELSE Goto(r, "classifying") /\ CallIssued(r)
    /\ UNCHANGED <<fs, links, cwd, opened, acc, entry, desc, task_type, llm_log,
                   executor, proc, llm_next, inner, params, script_by, ran>>

\* TaskHandler.call_llm returns inside classify_task: any failure of the
\* attempt raises (a 5xx body has no "choices") and run_task answers 500;
\* a reply is stripped and becomes task_type.
ClassifyReturn(r) ==
    /\ entry[r] = "POST /run" /\ pc[r] = "classifying" /\ Pending(r)
    /\ llm_log' = [llm_log EXCEPT ![r] = Append(@, llm_next)]
    /\ Consume
    /\ IF llm_next # "ok"
       THEN Finish(r, "classifying", 500, "LLM call raised") /\ task_type' = task_type
       ELSE \E reply \in Replies :
                /\ task_type' = [task_type EXCEPT ![r] = Strip(reply.chunks)]
                /\ Goto(r, "resolving")
    /\ UNCHANGED <<fs, links, cwd, opened, acc, entry, desc, llm_calls, executor, proc,
                   inner, params, script_by, ran>>

\* handlers.get(task_type): the handler found is called; when none is
\* found handle_custom_task is called, which first asks the service to
\* analyze the task.
Dispatch(r) ==
    /\ entry[r] = "POST /run" /\ pc[r] = "resolving" /\ Pending(r)
    /\ LET h == Lookup(HandlerTable, task_type[r])
       IN  IF h # "none"
           THEN /\ executor' = [executor EXCEPT ![r] = h]
                /\ Goto(r, "executing")
                /\ IF h \in AwaitsFirst THEN CallIssued(r) ELSE llm_calls' = llm_calls
           ELSE /\ executor' = executor
                /\ Goto(r, "analyzing")
                /\ CallIssued(r)
    /\ UNCHANGED <<fs, links, cwd, opened, acc, entry, desc, task_type, llm_log, proc,
                   llm_next, inner, params, script_by, ran>>

\* handle_custom_task keeping the parsed analysis in /data/task_info.json
\* before it looks the task type up
CustomAnalyzeReturnSaving(r) ==
    /\ entry[r] = "POST /run" /\ pc[r] = "analyzing" /\ Pending(r)
    /\ Consume
    /\ IF llm_next # "ok"
       THEN Finish(r, "analyzing", 500, "LLM call raised")
            /\ UNCHANGED <<executor, llm_calls, fs, opened>>
       ELSE \E reply \in Replies :
              IF ~ reply.json
              THEN Finish(r, "analyzing", 500, "JSONDecodeError")
                   /\ UNCHANGED <<executor, llm_calls, fs, opened>>
              ELSE /\ fs' = PutFile(fs, DATA_DIR \o <<"task_info.json">>, Small)
                   /\ opened' = opened \cup
                          {Opening(r, "TaskHandler.handle_custom_task",
                                   DATA_DIR \o <<"task_info.json">>, "w")}
                   /\ IF "type" \notin reply.doc.keys
                      THEN Finish(r, "analyzing", 500, "KeyError")
                           /\ UNCHANGED <<executor, llm_calls>>
                      ELSE IF Lookup(CustomTable, <<reply.doc.type>>) = "none"
                      THEN Finish(r, "analyzing", 400, "Unsupported task type")
                           /\ UNCHANGED <<executor, llm_calls>>
                      ELSE IF "parameters" \notin reply.doc.keys
                      THEN Finish(r, "analyzing", 500, "KeyError")
                           /\ UNCHANGED <<executor, llm_calls>>
                      ELSE /\ executor' = [executor EXCEPT
                                             ![r] = Lookup(CustomTable, <<reply.doc.type>>)]
                           /\ Goto(r, "executing")
                           /\ CallIssued(r)
    /\ UNCHANGED <<links, cwd, acc, entry, desc, task_type, llm_log, proc,
                   inner, params, script_by, ran>>

\* handle_custom_task after the service has answered
CustomAnalyzeReturn(r) ==
    /\ entry[r] = "POST /run" /\ pc[r] = "analyzing" /\ Pending(r)
    /\ Consume
    /\ IF llm_next # "ok"
       THEN Finish(r, "analyzing", 500, "LLM call raised")
            /\ UNCHANGED <<executor, llm_calls>>
       ELSE \E reply \in Replies :
              IF ~ reply.json
              THEN Finish(r, "analyzing", 500, "JSONDecodeError")
                   /\ UNCHANGED <<executor, llm_calls>>
              ELSE IF "type" \notin reply.doc.keys
              THEN Finish(r, "analyzing", 500, "KeyError")
                   /\ UNCHANGED <<executor, llm_calls>>
              ELSE IF Lookup(CustomTable, <<reply.doc.type>>) = "none"
              THEN Finish(r, "analyzing", 400, "Unsupported task type")
                   /\ UNCHANGED <<executor, llm_calls>>
              ELSE IF "parameters" \notin reply.doc.keys
              THEN Finish(r, "analyzing", 500, "KeyError")
                   /\ UNCHANGED <<executor, llm_calls>>
              ELSE /\ executor' = [executor EXCEPT
                                     ![r] = Lookup(CustomTable, <<reply.doc.type>>)]
                   /\ Goto(r, "executing")
                   /\ CallIssued(r)
    /\ UNCHANGED <<fs, links, cwd, opened, acc, entry, desc, task_type, llm_log, proc,
                   inner, params, script_by, ran>>

----------------------------------------------------------------------------
(* Executors *)

\* What requests.get(url) does: an answer with a status, a connection
\* error, or no answer at all.  The call passes no timeout, so with no
\* answer it does not return and the request stays "blocked".
DownloadOutcomes == {"200", "404", "error", "noanswer"}

ScriptLoc == TEMP_DIR \o <<"datagen.py">>
Script == [text |-> <<"datagen">>, size |-> 7]

\* open(path, 'w') on a raw path, without mkdir
RawCreate(p, wd, lnk, f) ==
    LET loc == OSLookup(p, wd, lnk, f)
    IN  IF loc \in {NoEnt, NotDir} \/ IsDir(loc, f) THEN Raise(500)
        ELSE Ok(loc, NoContent)

Ran(r, status) == proc' = [proc EXCEPT ![r] = status]

\* the reply an executor takes its parameters from
Taken(reply) == [got |-> TRUE, json |-> reply.json, doc |-> reply.doc]

\* TaskHandler.handle_datagen (A1) after the service has answered the
\* request for the email: download, write /tmp/datagen.py, run it.  The
\* exit status of the script is not looked at.
DatagenMain(r) ==
    /\ pc[r] = "executing" /\ executor[r] = "TaskHandler.handle_datagen" /\ Pending(r)
    /\ Consume
    /\ IF llm_next # "ok"
       THEN Finish(r, "executing", 500, "LLM call raised")
            /\ UNCHANGED <<fs, opened, proc, script_by, ran>>
       ELSE \E d \in DownloadOutcomes :
              CASE d = "noanswer" -> Goto(r, "blocked") /\ UNCHANGED <<fs, opened, proc, script_by, ran>>
                [] d = "error" -> Finish(r, "executing", 500, "ConnectionError")
                                  /\ UNCHANGED <<fs, opened, proc, script_by, ran>>
                [] d = "404" -> Finish(r, "executing", 500, "Failed to download script")
                                /\ UNCHANGED <<fs, opened, proc, script_by, ran>>
                [] d = "200" ->
                     /\ fs' = PutFile(fs, ScriptLoc, Script)
                     /\ script_by' = r
                     /\ ran' = [ran EXCEPT ![r] = script_by']
                     /\ opened' = opened \cup {Opening(r, executor[r], ScriptLoc, "w")}
                     /\ \E status \in {0, 1} : Ran(r, status)
                     /\ Finish(r, "executing", 200, "success")
    /\ UNCHANGED <<links, cwd, acc, entry, desc, task_type, llm_calls, llm_log, executor,
                   inner, params>>

\* TaskHandler.handle_format_markdown (A2): npm and prettier are run with
\* subprocess.run without check=True; only a program that cannot be
\* started raises.
FormatMarkdownMain(r) ==
    /\ pc[r] = "executing" /\ executor[r] = "TaskHandler.handle_format_markdown"
    /\ Pending(r)
    /\ \E out \in {"exit0", "exit1", "missing"} :
          CASE out = "missing" -> Finish(r, "executing", 500, "FileNotFoundError")
                                  /\ proc' = proc
            [] out = "exit0" -> Finish(r, "executing", 200, "success") /\ Ran(r, 0)
            [] out = "exit1" -> Finish(r, "executing", 200, "success") /\ Ran(r, 1)
    /\ UNCHANGED <<fs, links, cwd, opened, acc, entry, desc, task_type, llm_calls,
                   llm_log, executor, llm_next, inner, params, script_by, ran>>

\* TaskHandler.handle_count_weekdays (A3) after the service has answered:
\* the paths of the reply are opened as they are.
CountWeekdaysMain(r) ==
    /\ pc[r] = "executing" /\ executor[r] = "TaskHandler.handle_count_weekdays"
    /\ Pending(r)
    /\ Consume
    /\ IF llm_next # "ok"
       THEN Finish(r, "executing", 500, "LLM call raised")
            /\ UNCHANGED <<fs, opened, params, script_by>>
       ELSE \E reply \in Replies :
              LET files == reply.doc
                  rd == OpenRead(files.input, cwd, links, fs)
                  wr == RawCreate(files.output, cwd, links, fs)
                  count == CountWednesdays(rd.content.text)
                  read == opened \cup {Opening(r, executor[r], rd.loc, "r")}
              IN  /\ params' = [params EXCEPT ![r] = Taken(reply)]
                  /\ IF ~ reply.json
                     THEN Finish(r, "executing", 500, "JSONDecodeError")
                          /\ UNCHANGED <<fs, opened, script_by>>
                     ELSE IF "input" \notin files.keys
                     THEN Finish(r, "executing", 500, "KeyError")
                          /\ UNCHANGED <<fs, opened, script_by>>
                     ELSE IF rd.status # 200
                     THEN Finish(r, "executing", 500, "OSError")
                          /\ UNCHANGED <<fs, opened, script_by>>
                     ELSE IF \E i \in 1..Len(rd.content.text) : ~ IsDate(rd.content.text[i])
                     THEN Finish(r, "executing", 500, "ValueError")
                          /\ opened' = read /\ UNCHANGED <<fs, script_by>>
                     ELSE IF "output" \notin files.keys
                     THEN Finish(r, "executing", 500, "KeyError")
                          /\ opened' = read /\ UNCHANGED <<fs, script_by>>
                     ELSE IF wr.status # 200
                     THEN Finish(r, "executing", 500, "OSError")
                          /\ opened' = read /\ UNCHANGED <<fs, script_by>>
                     ELSE /\ fs' = PutFile(fs, wr.loc, [text |-> <<Str(count)>>, size |-> 1])
                          /\ opened' = read \cup {Opening(r, executor[r], wr.loc, "w")}
                          /\ script_by' = IF wr.loc = ScriptLoc THEN r ELSE script_by
                          /\ Finish(r, "executing", 200, "success")
    /\ UNCHANGED <<links, cwd, acc, entry, desc, task_type, llm_calls, llm_log,
                   executor, proc, inner, ran>>

\* OperationsHandler.handle_sort_contacts .. handle_ticket_sales (A4, A5,
\* A7..A10), reduced to their outcome: each returns its result or, its body being
\* inside try/except Exception, raises a 500.
OtherOperation(r) ==
    /\ pc[r] = "executing" /\ executor[r] \in OtherOperations /\ Pending(r)
    /\ \E status \in {200, 500} :
          Finish(r, "executing", status, IF status = 200 THEN "success" ELSE "Exception")
    /\ UNCHANGED <<fs, links, cwd, opened, acc, entry, desc, task_type, llm_calls,
                   llm_log, executor, proc, llm_next, inner, params, script_by, ran>>

\* The methods of BusinessHandler, reduced to their outcome: each asks the
\* service for the details of the task, parses the reply as JSON, does its
\* work, and raises a 500 for any exception.
BusinessMethod(r) ==
    /\ pc[r] = "executing" /\ executor[r] \in BusinessMethods /\ Pending(r)
    /\ Consume
    /\ IF llm_next # "ok"
       THEN Finish(r, "executing", 500, "LLM API error")
       ELSE \E reply \in Replies :
              IF ~ reply.json THEN Finish(r, "executing", 500, "JSONDecodeError")
              ELSE \E status \in {200, 500} :
                     Finish(r, "executing", status,
                            IF status = 200 THEN "success" ELSE "Exception")
    /\ UNCHANGED <<fs, links, cwd, opened, acc, entry, desc, task_type, llm_calls,
                   llm_log, executor, proc, inner, params, script_by, ran>>

\* Names the modules use without importing them
OperationsImportsRe == FALSE
BaseImportsJson == FALSE

DocsDir == DATA_DIR \o <<"docs">>
IndexFile == DocsDir \o <<"index.json">>
MdNames == {"x.md", "y.md"}

\* docs_dir.glob("**/*.md"): the entries below dir whose name ends in
\* .md, files and symbolic links alike
Glob(dir, f, lnk) ==
    {q \in DOMAIN f \cup DOMAIN lnk : InParents(dir, q) /\ q[Len(q)] \in MdNames}

\* handle_markdown_index from write_json on; no file of the disk has a
\* heading, so the index written is empty
WriteIndex(r) ==
    LET wr == FileOpsWriteJson(AbsPath(IndexFile), cwd, links, fs)
    IN  IF wr.status = 200
        THEN /\ fs' = PutFile(fs, wr.loc, JsonContent(JDict(<<>>, <<>>)))
             /\ opened' = opened \cup {Opening(r, "file_ops.write_file", wr.loc, "w")}
             /\ inner' = inner
             /\ Finish(r, "executing", 200, "success")
        ELSE /\ UNCHANGED <<fs, opened>>
             /\ inner' = [inner EXCEPT ![r] = wr.status]
             /\ Finish(r, "executing", 500, "Exception")

\* OperationsHandler.handle_markdown_index (A6).  The accessors are
\* coroutines that never suspend, so the method runs in one piece.  Every
\* exception raised in its body, the HTTPException of read_file included,
\* is caught by "except Exception" and raised again as a 500.  re is not
\* imported, so re.search raises NameError after the first file is read.
MarkdownIndex(r) ==
    /\ pc[r] = "executing" /\ executor[r] = "OperationsHandler.handle_markdown_index"
    /\ Pending(r)
    /\ LET mds == Glob(DocsDir, fs, links)
       IN  IF mds = {} THEN WriteIndex(r)
           ELSE \E first \in mds :
                  LET rd == FileOpsRead(AbsPath(first), cwd, links, fs)
                  IN  IF rd.status # 200
                      THEN /\ inner' = [inner EXCEPT ![r] = rd.status]
                           /\ UNCHANGED <<fs, opened>>
                           /\ Finish(r, "executing", 500, "Exception")
                      ELSE IF ~ OperationsImportsRe
                      THEN /\ opened' = opened \cup
                                  {Opening(r, "file_ops.read_file", rd.loc, "r")}
                           /\ UNCHANGED <<fs, inner>>
                           /\ Finish(r, "executing", 500, "NameError")
                      ELSE WriteIndex(r)
    /\ UNCHANGED <<links, cwd, acc, entry, desc, task_type, llm_calls, llm_log,
                   executor, proc, llm_next, params, script_by, ran>>

\* OperationsHandler.handle_datagen after the service has answered: as
\* TaskHandler.handle_datagen, but a script that exits with a status other
\* than 0 raises a 500.
DatagenOps(r) ==
    /\ pc[r] = "executing" /\ executor[r] = "OperationsHandler.handle_datagen"
    /\ Pending(r)
    /\ Consume
    /\ IF llm_next # "ok"
       THEN Finish(r, "executing", 500, "LLM API error")
            /\ UNCHANGED <<fs, opened, proc, script_by, ran>>
       ELSE \E d \in DownloadOutcomes :
              CASE d = "noanswer" -> Goto(r, "blocked") /\ UNCHANGED <<fs, opened, proc, script_by, ran>>
                [] d = "error" -> Finish(r, "executing", 500, "ConnectionError")
                                  /\ UNCHANGED <<fs, opened, proc, script_by, ran>>
                [] d = "404" -> Finish(r, "executing", 500, "Failed to download script")
                                /\ UNCHANGED <<fs, opened, proc, script_by, ran>>
                [] d = "200" ->
                     /\ fs' = PutFile(fs, ScriptLoc, Script)
                     /\ script_by' = r
                     /\ ran' = [ran EXCEPT ![r] = script_by']
                     /\ opened' = opened \cup {Opening(r, executor[r], ScriptLoc, "w")}
                     /\ \E status \in {0, 1} :
                          /\ Ran(r, status)
                          /\ IF status # 0
                             THEN Finish(r, "executing", 500, "Script error")
                             ELSE Finish(r, "executing", 200, "success")
    /\ UNCHANGED <<links, cwd, acc, entry, desc, task_type, llm_calls, llm_log, executor,
                   inner, params>>

\* OperationsHandler.handle_format_markdown: re is not imported, so
\* re.search raises NameError, which the except clause turns into a 500;
\* npm and prettier are run with check=True.
FormatMarkdownOps(r) ==
    /\ pc[r] = "executing" /\ executor[r] = "OperationsHandler.handle_format_markdown"
    /\ Pending(r)
    /\ IF ~ OperationsImportsRe
       THEN Finish(r, "executing", 500, "NameError") /\ proc' = proc
       ELSE \E out \in {"exit0", "exit1", "missing"} :
              CASE out = "missing" -> Finish(r, "executing", 500, "FileNotFoundError")
                                      /\ proc' = proc
                [] out = "exit0" -> Finish(r, "executing", 200, "success") /\ Ran(r, 0)
                [] out = "exit1" -> Finish(r, "executing", 500, "CalledProcessError")
                                    /\ Ran(r, 1)
    /\ UNCHANGED <<fs, links, cwd, opened, acc, entry, desc, task_type, llm_calls,
                   llm_log, executor, llm_next, inner, params, script_by, ran>>

\* OperationsHandler.handle_count_weekdays after the service has answered
\* extract_parameters: json is not imported in base.py, so json.loads
\* raises NameError and extract_parameters a 500.  With the import, the
\* input path is joined to DATA_DIR and opened, and "async with" on the
\* file raises.
CountWeekdaysOps(r) ==
    /\ pc[r] = "executing" /\ executor[r] = "OperationsHandler.handle_count_weekdays"
    /\ Pending(r)
    /\ Consume
    /\ IF llm_next # "ok"
       THEN Finish(r, "executing", 500, "Error extracting parameters")
            /\ UNCHANGED <<opened, params>>
       ELSE \E reply \in Replies :
              LET rd == OpenRead(PathJoin(DATA_DIR, reply.doc.input), cwd, links, fs)
              IN  /\ params' = [params EXCEPT ![r] = Taken(reply)]
                  /\ IF ~ BaseImportsJson \/ ~ reply.json
                     THEN Finish(r, "executing", 500, "Error extracting parameters")
                          /\ opened' = opened
                     ELSE IF "input_file" \notin reply.doc.keys
                             \/ "output_file" \notin reply.doc.keys
                     THEN Finish(r, "executing", 500, "KeyError") /\ opened' = opened
                     ELSE IF rd.status # 200
                     THEN Finish(r, "executing", 500, "OSError") /\ opened' = opened
                     ELSE /\ Finish(r, "executing", 500, "TypeError")
                          /\ opened' = opened \cup {Opening(r, executor[r], rd.loc, "r")}
    /\ UNCHANGED <<fs, links, cwd, acc, entry, desc, task_type, llm_calls, llm_log,
                   executor, proc, inner, script_by, ran>>

----------------------------------------------------------------------------
(* The specification of the requests: each request is a POST /run with a  *)
(* description drawn from Descriptions, or a direct call of one of the     *)
(* OperationsHandler methods for A1..A3, which no table refers to.         *)

DirectMethods == {"OperationsHandler.handle_datagen",
                  "OperationsHandler.handle_format_markdown",
                  "OperationsHandler.handle_count_weekdays"}

\* /data/docs/x.md is a symbolic link to /etc/f, /data/docs/y.md one to
\* /data/gone.md, which does not exist
DocsLinks ==
    [q \in {DocsDir \o <<"x.md">>, DocsDir \o <<"y.md">>} |->
        IF q = DocsDir \o <<"x.md">> THEN <<"etc", "f">> ELSE <<"data", "gone.md">>]

Init ==
    /\ fs = Disk(Small)
    /\ links \in {NoLinks, DocsLinks}
    /\ cwd = <<"app">>
    /\ opened = {}
    /\ acc = IdleCall
    /\ entry \in [Requests -> {"POST /run", "direct"}]
    /\ desc \in [Requests -> Descriptions]
    /\ executor \in [Requests -> DirectMethods \cup {"none"}]
    /\ \A r \in Requests :
          /\ (entry[r] = "direct") <=> (executor[r] # "none")
          /\ entry[r] = "direct" => desc[r] = [textual |-> TRUE, toks |-> <<"Count">>]
    /\ pc = [r \in Requests |-> IF entry[r] = "direct" THEN "executing" ELSE "received"]
    /\ llm_calls = [r \in Requests |-> IF executor[r] \in AwaitsFirst THEN 1 ELSE 0]
    /\ task_type = [r \in Requests |-> <<>>]
    /\ resp = [r \in Requests |-> NoResp]
    /\ llm_log = [r \in Requests |-> <<>>]
    /\ proc = [r \in Requests |-> -1]
    /\ llm_next \in LLMOutcomes
    /\ inner = [r \in Requests |-> 0]
    /\ params = [r \in Requests |-> NoParams]
    /\ script_by = "none"
    /\ ran = [r \in Requests |-> "none"]

Next ==
    \E r \in Requests :
        \/ RunTaskValidate(r)
        \/ ClassifyReturn(r)
        \/ Dispatch(r)
        \/ CustomAnalyzeReturn(r)
        \/ DatagenMain(r)
        \/ FormatMarkdownMain(r)
        \/ CountWeekdaysMain(r)
        \/ MarkdownIndex(r)
        \/ OtherOperation(r)
        \/ BusinessMethod(r)
        \/ DatagenOps(r)
        \/ FormatMarkdownOps(r)
        \/ CountWeekdaysOps(r)

Spec == Init /\ [][Next]_vars

\* Every step that is possible is eventually taken: the event loop runs
\* every coroutine that is ready, and the service ends every attempt.
FairSpec == Spec /\ WF_vars(Next)

----------------------------------------------------------------------------
(* Claims about the resolver and the accessor *)

\* The sandbox as the claims state it: the location is strictly below /data
InsideSandbox(loc) == Len(loc) >= 2 /\ loc[1] = "data"

HasRawDotDot(p) == \E i \in 1..Len(p.segs) : p.segs[i] = ".."

\* C1: sandbox containment.  validate_path fails with a 400 and returns no
\* path for every input whose normalized location is not strictly below
\* /data, and every path validate_path or ensure_data_dir returns is
\* strictly below /data.
C1_SandboxContainment ==
    (acc.done /\ acc.op \in {"validate_path", "ensure_data_dir"}) =>
        /\ (acc.op = "validate_path"
              /\ ~ InsideSandbox(Resolve(acc.path, cwd, links)))
            => (acc.result.status = 400 /\ acc.result.loc = NoLoc)
        /\ acc.result.status = 200 => InsideSandbox(acc.result.loc)

\* a path through the symbolic link /data/ln, which leaves the sandbox, has
\* been refused
C1_Witness ==
    /\ acc.done /\ acc.op = "validate_path"
    /\ acc.path = AbsPath(<<"data", "ln", "f">>)
    /\ links = EscapeLink
    /\ acc.result.status = 400

\* C2: GET /read answers a path with a ".." component that leads out of
\* the sandbox with a 400 and opens no file for it.
C2_ReadRejectsTraversal ==
    (acc.done /\ acc.op = "GET /read" /\ HasRawDotDot(acc.path)
       /\ ~ InsideSandbox(Resolve(acc.path, cwd, links)))
    => (acc.result.status = 400 /\ opened = {})

\* C10: the accessor enforces MAX_FILE_SIZE.  A write of a larger content
\* fails and leaves the disk as it was; a read of a larger file fails.
C10_SizeCeiling ==
    /\ (acc.done /\ acc.op = "file_ops.write_file"
          /\ acc.content.size > MAX_FILE_SIZE)
        => (acc.result.status # 200
              /\ fs \in {Disk(Small), Disk(OverCeiling)}
              /\ opened = {})
    /\ (acc.done /\ acc.op = "file_ops.read_file")
        => acc.result.content.size <= MAX_FILE_SIZE

\* C11: round trip of the JSON accessors.  Once write_json(p, r) has
\* accepted a path p, absolute under /data or relative, and a record r that
\* JSON represents, read_json(p) succeeds and returns a value equal to r.
C11_JsonRoundTrip ==
    (/\ acc.op = "file_ops.write_json" /\ acc.done
     /\ acc.result.status = 200
     /\ Representable(acc.data)
     /\ acc.back # NoBack)
        => acc.back = [status |-> 200, value |-> acc.data]

\* C12: the resolver rejects every input that holds a ".." segment as it
\* was given, before normalisation, also when the normalised location lies
\* inside the sandbox.
C12_RawDotDotRejected ==
    (acc.op = "validate_path" /\ acc.done /\ HasRawDotDot(acc.path))
        => acc.result.status = 400

----------------------------------------------------------------------------
(* Claims about the requests *)

Run(r) == entry[r] = "POST /run"
Over(r) == resp[r].status # 0
Classified(r) == Run(r) /\ pc[r] \notin {"received", "validating", "classifying"}

\* C3: every file the program opens, for reading or for writing, lies
\* strictly below /data; a path extracted by the service that lies outside
\* is rejected, not opened.
C3_OpensInsideSandbox == \A o \in opened : InsideSandbox(o.loc)

\* C4: when the stripped reply of the classifier is empty or is no key of
\* the closed category set, the request goes no further than the lookup:
\* no executor is invoked, no second call of the service is made, and the
\* request does not complete.
C4_UnknownCategoryFails ==
    \A r \in Requests :
        (Classified(r) /\ ~ (Len(task_type[r]) = 1 /\ task_type[r][1] \in TASK_CATEGORIES))
        => /\ pc[r] = "resolving"
           /\ executor[r] = "none"
           /\ llm_calls[r] = 1
           /\ resp[r].status # 200

\* C5: when the classified category is not in the handler table, no
\* executor is invoked, the custom-task fallback included, and the request
\* ends as an unsupported category.
C5_LookupMissFails ==
    \A r \in Requests :
        (Classified(r) /\ Lookup(HandlerTable, task_type[r]) = "none")
        => /\ executor[r] = "none"
           /\ Over(r) => resp[r] = Resp(400, "Unsupported task type")

\* C6: a description is rejected at validation, before the classifier is
\* called, exactly when it is empty or no text.
C6_ValidationRejectsOnlyEmpty ==
    \A r \in Requests :
        (Run(r) /\ pc[r] # "received")
        => IF validate_task(desc[r]) # 200
           THEN pc[r] = "validating" /\ Over(r) /\ resp[r].status # 200
                /\ llm_calls[r] = 0
           ELSE pc[r] # "validating"

\* C7: every request reaches a terminal outcome, and keeps it.
C7_EveryRequestEnds ==
    /\ \A r \in Requests : <>Over(r)
    /\ [][\A r \in Requests : Over(r) => resp'[r] = resp[r]]_vars

\* C8: a request whose executor ran a program that exited with a status
\* other than 0 does not complete with success.
C8_FailureIsReported ==
    \A r \in Requests : proc[r] > 0 => resp[r].status \notin {0, 200}

\* C9: a request whose classifier call met one transient transport error
\* is not failed at classification when the service answers the next
\* attempt.
C9_RetryTransparency ==
    \A r \in Requests :
        (Run(r) /\ Len(llm_log[r]) = 1 /\ llm_log[r][1] \in {"timeout", "reset", "http5xx"}
           /\ llm_next = "ok")
        => ~ (pc[r] = "classifying" /\ Over(r))

\* C13: error kinds pass unchanged.  When the storage accessor raises a
\* NotFound (404) or a PathViolation (400) inside an executor, the response
\* to the request carries that same status; no layer turns it into a
\* generic execution failure.
C13_ErrorKindPreserved ==
    \A r \in Requests :
        (Over(r) /\ inner[r] \in {400, 404}) => resp[r].status = inner[r]

CountWeekdaysHandlers == {"TaskHandler.handle_count_weekdays",
                          "OperationsHandler.handle_count_weekdays"}

\* "Count the Wednesdays in /data/dates.txt ...": a description in plain
\* words that names its input file
WeekdayQuestion == [textual |-> TRUE, toks |-> <<"Count", "/data/dates.txt">>]

\* the paths the service extracts from it, both below /data
WeekdayDoc == [keys |-> {"input", "output"},
               input |-> AbsPath(<<"data", "dates.txt">>),
               output |-> AbsPath(<<"data", "out.txt">>), type |-> ""]

\* C14: the weekday count, end to end.  A request with the weekday
\* question is not turned away before classification, and a weekday-count
\* executor that got the paths /data/dates.txt and /data/out.txt from the
\* service completes with success and leaves in the output file the
\* decimal count of the Wednesdays of the input, "2" for the three dates
\* of the disk.
C14_WeekdayCount ==
    \A r \in Requests :
        /\ (Run(r) /\ desc[r] = WeekdayQuestion /\ Over(r)) => pc[r] # "validating"
        /\ (/\ executor[r] \in CountWeekdaysHandlers
            /\ params[r].got /\ params[r].json /\ params[r].doc = WeekdayDoc)
              => /\ resp[r].status = 200
                 /\ <<"data", "out.txt">> \in DOMAIN fs
                 /\ fs[<<"data", "out.txt">>].text = <<"2">>

\* the fields each weekday-count executor reads from its parameters
RequiredKeys(h) ==
    IF h = "TaskHandler.handle_count_weekdays" THEN {"input", "output"}
    ELSE {"input_file", "output_file"}

\* C15: a reply that cannot be parsed, or that lacks a field the executor
\* requires, ends the request with the extraction failure, and the
\* executor has opened no file on its behalf.
C15_ExtractionFailure ==
    \A r \in Requests :
        (/\ params[r].got
         /\ \/ ~ params[r].json
            \/ ~ (RequiredKeys(executor[r]) \subseteq params[r].doc.keys))
          => /\ resp[r].detail = "Error extracting parameters"
             /\ \A o \in opened : o.req # r

\* C16: two requests share no data through a location outside the
\* sandbox.  The script a request runs is the one it wrote itself, and no
\* request reads outside /data a file that the other request wrote.
C16_NoSharedState ==
    /\ \A r \in Requests : ran[r] \in {"none", r}
    /\ \A w \in opened : \A o \in opened :
          (/\ w.mode = "w" /\ o.mode = "r" /\ w.loc = o.loc
           /\ ~ InsideSandbox(w.loc)
           /\ w.req \in Requests /\ o.req \in Requests)
            => w.req = o.req

\* a request that failed before any executor was invoked: rejected at
\* validation, failed in the classifier's call, or of a task type that no
\* table holds
EarlyFailure(r) ==
    Run(r) /\ Over(r) /\ resp[r].status # 200 /\ executor[r] = "none"

\* C17: a request that failed before any executor was invoked has opened
\* no file, and when both requests failed so the disk is as it was.
C17_EarlyFailureFrame ==
    /\ \A r \in Requests : EarlyFailure(r) => \A o \in opened : o.req # r
    /\ (\A r \in Requests : EarlyFailure(r)) => fs = Disk(Small)

\* one request ended with 'Unsupported task type' while the other wrote a
\* file
C17_Witness ==
    \E r \in Requests : \E q \in Requests \ {r} :
        /\ EarlyFailure(r) /\ pc[r] = "analyzing" /\ resp[r].status = 400
        /\ \E o \in opened : o.req = q /\ o.mode = "w"

================================================================================
